---- MODULE Spec2Model ----
(***************************************************************************)
(* Model of the LIT slice editor (SliceModule) and selection toolbar       *)
(* (LitSelectionToolbar).  The handlers of the two widgets are translated   *)
(* from slice_module.ts and selection_toolbar.ts.  The services they call   *)
(* (SelectionService, SliceService, GroupService, AppState) and the helpers *)
(* of lib/utils are modelled from their documented contracts.               *)
(*                                                                         *)
(* A handler is an operator from a world record (the fields of the         *)
(* services and of the widgets) to a world record; an action applies one   *)
(* handler under the condition that makes its control clickable.           *)
(* Array indices are 0-based as in the source; Sequences are 1-based, so   *)
(* the element at index i of an array s is s[i + 1].                       *)
(***************************************************************************)
EXTENDS Integers, Sequences, FiniteSets, TLC

VARIABLES
  appState,                  \* currentInputData (rows with their meta), compareExamplesEnabled
  selectionService,          \* the main selection: selectedIds, primarySelectedId
  referenceSelectionService, \* the reference selection: selectedIds, primarySelectedId
  sliceService,              \* namedSlices (ordered map name -> ids), selectedSliceName
  sliceByFeatures,           \* SliceModule.sliceByFeatures
  sliceName,                 \* SliceModule.sliceName
  featureNames,              \* groupService.categoricalAndNumericalFeatureNames
  lastOp                     \* the handler that ran last, and its argument

vars == <<appState, selectionService, referenceSelectionService, sliceService,
          sliceByFeatures, sliceName, featureNames, lastOp>>

-----------------------------------------------------------------------------
(* Values *)

FAVORITES_SLICE_NAME == "favorites"

\* JS null, as the value of a primary id
NullId == "null"

\* a row without meta['parentId']
NoParent == ""

\* meta['isFavorited'] absent (undefined)
NoFlag == "absent"

\* the number of slices the model lets the slice service hold
MaxSlices == 2

\* the number of rows of the largest dataset the model loads
MaxRows == 3

\* the number of features the model lets sliceByFeatures hold
MaxChecked == 4

-----------------------------------------------------------------------------
(* Array helpers *)

Range(s) == {s[i] : i \in 1..Len(s)}

Includes(s, x) == \E i \in 1..Len(s) : s[i] = x

\* Array.prototype.indexOf / findIndex on equality: first index, or -1
IndexOf(s, x) ==
  IF Includes(s, x)
    THEN (CHOOSE i \in 1..Len(s) : s[i] = x /\ \A j \in 1..(i - 1) : s[j] # x) - 1
    ELSE -1

\* the insertion order of new Set(s): every value once, at its first place
RECURSIVE Unique(_)
Unique(s) ==
  IF s = <<>> THEN <<>>
  ELSE LET r == Unique(SubSeq(s, 1, Len(s) - 1))
       IN IF Includes(r, s[Len(s)]) THEN r ELSE Append(r, s[Len(s)])

\* flatten(): the concatenation of an array of arrays
RECURSIVE flatten(_)
flatten(ss) ==
  IF ss = <<>> THEN <<>> ELSE Head(ss) \o flatten(Tail(ss))

Filter(s, Test(_)) == SelectSeq(s, Test)

\* Array.prototype.splice(index, 1); a negative index counts from the end
Splice1(s, index) ==
  LET at == IF index < 0 THEN (IF Len(s) + index < 0 THEN 0 ELSE Len(s) + index)
            ELSE index
  IN IF at >= Len(s) THEN s
     ELSE SubSeq(s, 1, at) \o SubSeq(s, at + 2, Len(s))

\* the offsets randInt(1, n) can return: the integers of [1, n), or 1 when
\* that range is empty
RandOffsets(n) == IF n <= 1 THEN {1} ELSE 1..(n - 1)

-----------------------------------------------------------------------------
(* AppState *)

Row(id, parentId, f, g, fav) ==
  [id |-> id, data |-> [f |-> f, g |-> g],
   meta |-> [parentId |-> parentId, isFavorited |-> fav]]

\* a lineage chain c -> b -> a
ChainData == << Row("a", NoParent, "p", "u", "false"),
                Row("b", "a", "q", "u", "false"),
                Row("c", "b", "p", "u", NoFlag) >>

\* two children of one parent
ForkData == << Row("a", NoParent, "p", "u", "false"),
               Row("b", "a", "p", "v", "false"),
               Row("c", "a", "q", "v", "false") >>

\* a pair and an unrelated row between its members
MixedData == << Row("b", "c", "q", "u", "false"),
                Row("a", NoParent, "p", "v", NoFlag),
                Row("c", NoParent, "p", "u", "false") >>

\* a chain and an unrelated row
LongData == << Row("a", NoParent, "p", "u", "false"),
               Row("b", "a", "q", "u", "false"),
               Row("d", NoParent, "q", "v", "false"),
               Row("c", "b", "p", "u", NoFlag) >>

\* a child and its parent, one of them without a favorite flag
PairData == << Row("a", NoParent, "p", "u", "false"),
               Row("b", "a", "p", "v", NoFlag) >>

EmptyData == << >>

\* rows that two features group in different ways
GroupData == << Row("a", NoParent, "p", "u", "false"),
                Row("b", NoParent, "q", "u", "false"),
                Row("c", NoParent, "p", "v", "false") >>

\* a row whose parentId names no row of the dataset
OrphanData == << Row("a", NoParent, "p", "u", "false"),
                 Row("b", "z", "q", "u", "false") >>

\* the datasets the slice editor is run on
EditorDatasets == {PairData, EmptyData}

\* the datasets the toolbar is run on
ToolbarDatasets ==
  {d \in {ChainData, ForkData, MixedData, EmptyData, LongData} : Len(d) <= MaxRows}

IdsOf(rows) == [i \in 1..Len(rows) |-> rows[i].id]

\* the row of the dataset with the given id, or <<>> for none (null)
NoRow == << >>
RowById(rows, id) ==
  IF Includes(IdsOf(rows), id) THEN rows[IndexOf(IdsOf(rows), id) + 1] ELSE NoRow

\* the value of meta['isFavorited'] of the row with the given id
FlagOf(w, id) == RowById(w.appState.currentInputData, id).meta.isFavorited

ParentOf(rows, id) ==
  IF RowById(rows, id) = NoRow THEN NoParent ELSE RowById(rows, id).meta.parentId

\* appState.getAncestry(id): id, its parent, its parent's parent, ...
RECURSIVE getAncestry(_, _)
getAncestry(rows, id) ==
  IF id = NoParent THEN <<>>
  ELSE <<id>> \o getAncestry(rows, ParentOf(rows, id))

-----------------------------------------------------------------------------
(* SelectionService: an ordered set of ids and a primary id *)

\* selectIds(ids): the selection becomes ids, each once; the primary stays if
\* it is still selected, else it becomes the first selected id, or null
selectIds(sel, ids) ==
  [selectedIds |-> Unique(ids),
   primarySelectedId |->
     IF Includes(ids, sel.primarySelectedId) THEN sel.primarySelectedId
     ELSE IF ids = <<>> THEN NullId ELSE ids[1]]

\* setPrimarySelection(id): moves the primary pointer
setPrimarySelection(sel, id) == [sel EXCEPT !.primarySelectedId = id]

isIdSelected(sel, id) == Includes(sel.selectedIds, id)

selectedInputData(app, sel) ==
  LET Selected(d) == isIdSelected(sel, d.id)
  IN Filter(app.currentInputData, Selected)

selectedOrAllInputData(app, sel) ==
  IF sel.selectedIds = <<>> THEN app.currentInputData
  ELSE selectedInputData(app, sel)

\* the row of the primary id, or NoRow (null)
primarySelectedInputData(app, sel) ==
  IF sel.primarySelectedId = NullId THEN NoRow
  ELSE RowById(app.currentInputData, sel.primarySelectedId)

-----------------------------------------------------------------------------
(* SliceService: an ordered map from slice name to ids *)

sliceNames(svc) == [i \in 1..Len(svc.namedSlices) |-> svc.namedSlices[i].name]

hasSlice(svc, name) == Includes(sliceNames(svc), name)

\* the ids of the named slice, <<>> when there is no such slice
getSliceByName(svc, name) ==
  IF hasSlice(svc, name)
    THEN svc.namedSlices[IndexOf(sliceNames(svc), name) + 1].ids
    ELSE <<>>

\* addNamedSlice(name, ids): names are unique, so an existing name keeps its
\* place in the list and gets the new ids
addNamedSlice(svc, name, ids) ==
  IF hasSlice(svc, name)
    THEN [svc EXCEPT !.namedSlices[IndexOf(sliceNames(svc), name) + 1].ids = Unique(ids)]
    ELSE [svc EXCEPT !.namedSlices = Append(@, [name |-> name, ids |-> Unique(ids)])]

deleteNamedSlice(svc, name) ==
  LET Other(s) == s.name # name
  IN [svc EXCEPT !.namedSlices = Filter(@, Other)]

addIdsToSlice(svc, name, ids) ==
  IF hasSlice(svc, name)
    THEN [svc EXCEPT !.namedSlices[IndexOf(sliceNames(svc), name) + 1].ids = Unique(@ \o ids)]
    ELSE svc

removeIdsFromSlice(svc, name, ids) ==
  LET Kept(id) == ~Includes(ids, id)
  IN IF hasSlice(svc, name)
       THEN [svc EXCEPT !.namedSlices[IndexOf(sliceNames(svc), name) + 1].ids = Filter(@, Kept)]
       ELSE svc

\* selectNamedSlice(name): the name becomes the active slice name and the
\* selection is replaced by the slice's ids, when there is such a slice
selectNamedSlice(w, name) ==
  [w EXCEPT !.sliceService.selectedSliceName = name,
            !.selectionService =
               IF hasSlice(w.sliceService, name)
                 THEN selectIds(@, getSliceByName(w.sliceService, name))
                 ELSE @]

-----------------------------------------------------------------------------
(* GroupService *)

RECURSIVE GroupLabel(_, _)
\* the values of the features of a row, concatenated in the features' order
GroupLabel(d, features) ==
  IF features = <<>> THEN ""
  ELSE d.data[Head(features)] \o GroupLabel(d, Tail(features))

\* groupExamplesByFeatures(data, features): one group per label, in the order
\* in which the labels first occur, each with its rows
groupExamplesByFeatures(data, features) ==
  LET labels == Unique([i \in 1..Len(data) |-> GroupLabel(data[i], features)])
  IN [k \in 1..Len(labels) |->
        LET InGroup(d) == GroupLabel(d, features) = labels[k]
        IN [name |-> labels[k], data |-> Filter(data, InGroup)]]

\* numIntersectionsLabel(features): the number of combinations of the values
\* the features take in the dataset
RECURSIVE numIntersectionsLabel(_, _)
numIntersectionsLabel(rows, features) ==
  IF features = <<>> THEN 1
  ELSE Cardinality({rows[i].data[Head(features)] : i \in 1..Len(rows)})
         * numIntersectionsLabel(rows, Tail(features))

-----------------------------------------------------------------------------
(* SliceModule *)

anyCheckboxChecked(w) == Len(w.sliceByFeatures) # 0

\* createButtonEnabled taking a checked feature as enough, whatever is selected
createButtonEnabledAnySelection(w) ==
  anyCheckboxChecked(w) \/
    (w.sliceName # "" /\ Len(w.selectionService.selectedIds) > 0)

createButtonEnabled(w) ==
  LET sliceFromFilters ==
        Len(w.selectionService.selectedIds) = 0 /\ anyCheckboxChecked(w)
  IN sliceFromFilters \/
       (w.sliceName # "" /\ Len(w.selectionService.selectedIds) > 0)

\* deleteButtonEnabled without the test for the favorites slice
deleteButtonEnabledAnySlice(w) == w.sliceService.selectedSliceName # ""

deleteButtonEnabled(w) ==
  /\ w.sliceService.selectedSliceName # ""
  /\ w.sliceService.selectedSliceName # FAVORITES_SLICE_NAME

sliceNameInputEditable(w) ==
  Len(w.selectionService.selectedIds) > 0 \/ anyCheckboxChecked(w)

\* allSlices[allSlices.length - 1]; "undefined" for an empty list
lastCreatedSlice(w) ==
  LET allSlices == sliceNames(w.sliceService)
  IN IF allSlices = <<>> THEN "undefined" ELSE allSlices[(Len(allSlices) - 1) + 1]

selectSlice(w, name) == selectNamedSlice(w, name)

\* the slice names makeSlicesFromAllLabelCombos gives to the groups
RECURSIVE AddSlices(_, _, _)
AddSlices(svc, sliceNamePrefix, groups) ==
  IF groups = <<>> THEN svc
  ELSE LET createSlicename == sliceNamePrefix \o "  " \o Head(groups).name
           ids == IdsOf(Head(groups).data)
       IN AddSlices(addNamedSlice(svc, createSlicename, ids), sliceNamePrefix,
                    Tail(groups))

\* makeSlicesFromAllLabelCombos grouping the selected rows only, also when
\* nothing is selected
makeSlicesFromSelectedOnly(w) ==
  LET data == selectedInputData(w.appState, w.selectionService)
      namedSlices == groupExamplesByFeatures(data, w.sliceByFeatures)
  IN [w EXCEPT !.sliceService = AddSlices(@, w.sliceName, namedSlices)]

makeSlicesFromAllLabelCombos(w) ==
  LET data == selectedOrAllInputData(w.appState, w.selectionService)
      namedSlices == groupExamplesByFeatures(data, w.sliceByFeatures)
  IN [w EXCEPT !.sliceService = AddSlices(@, w.sliceName, namedSlices)]

\* handleClickCreate without the selectSlice call of the name branch
handleClickCreateNoSelect(w) ==
  LET created ==
        IF anyCheckboxChecked(w)
          THEN LET made == makeSlicesFromAllLabelCombos(w)
               IN selectSlice(made, lastCreatedSlice(made))
          ELSE [w EXCEPT !.sliceService =
                  addNamedSlice(@, w.sliceName, w.selectionService.selectedIds)]
  IN [created EXCEPT !.sliceName = "", !.sliceByFeatures = <<>>]

handleClickCreate(w) ==
  LET created ==
        IF anyCheckboxChecked(w)
          THEN LET made == makeSlicesFromAllLabelCombos(w)
               IN selectSlice(made, lastCreatedSlice(made))
          ELSE LET ids == w.selectionService.selectedIds
                   createSliceName == w.sliceName
               IN selectSlice(
                    [w EXCEPT !.sliceService = addNamedSlice(@, createSliceName, ids)],
                    createSliceName)
  IN [created EXCEPT !.sliceName = "", !.sliceByFeatures = <<>>]

\* deleteSlice without the selectSlice call that empties the active name
deleteSliceKeepActive(w) ==
  [w EXCEPT !.sliceService = deleteNamedSlice(@, w.sliceService.selectedSliceName)]

deleteSlice(w) ==
  selectSlice(
    [w EXCEPT !.sliceService = deleteNamedSlice(@, w.sliceService.selectedSliceName)],
    "")

onInputChange(w, value) == [w EXCEPT !.sliceName = value]

\* renderFilters onChange(e, key), with checked = e.target.checked
onChange(w, checked, key) ==
  IF checked
    THEN [w EXCEPT !.sliceByFeatures = Append(@, key)]
    ELSE [w EXCEPT !.sliceByFeatures = Splice1(@, IndexOf(@, key))]

\* itemClicked selecting the slice whether it is active or not
itemClickedNoToggle(w, name) == selectSlice(w, name)

\* renderSliceSelector itemClicked, of the list item of slice name
itemClicked(w, name) ==
  selectSlice(w, IF w.sliceService.selectedSliceName = name THEN "" ELSE name)

\* renderNumSlices: the count shown next to the checkboxes, "" for none
renderNumSlices(w) ==
  IF anyCheckboxChecked(w)
    THEN numIntersectionsLabel(w.appState.currentInputData, w.sliceByFeatures)
    ELSE ""

-----------------------------------------------------------------------------
(* LitSelectionToolbar *)

\* ID pairs, as <<child, parent>>
selectedIdPairs(w) ==
  LET data == selectedOrAllInputData(w.appState, w.selectionService)
      HasParent(d) == d.meta.parentId # NoParent
      withParent == Filter(data, HasParent)
  IN [i \in 1..Len(withParent) |-> <<withParent[i].id, withParent[i].meta.parentId>>]

findAllParents(w) ==
  LET sel == w.selectionService.selectedIds
  IN flatten([i \in 1..Len(sel) |-> getAncestry(w.appState.currentInputData, sel[i])])

\* findAllChildren looking at the parent of a row only, not at its ancestry
findAllChildrenDirect(w) ==
  LET rows == w.appState.currentInputData
      HasSelectedParent(d) ==
        isIdSelected(w.selectionService, d.id) \/
          isIdSelected(w.selectionService, d.meta.parentId)
  IN Unique(w.selectionService.selectedIds \o IdsOf(Filter(rows, HasSelectedParent)))

findAllChildren(w) ==
  LET rows == w.appState.currentInputData
      HasSelectedAncestor(d) ==
        \E k \in 1..Len(getAncestry(rows, d.id)) :
           isIdSelected(w.selectionService, getAncestry(rows, d.id)[k])
  IN Unique(w.selectionService.selectedIds \o IdsOf(Filter(rows, HasSelectedAncestor)))

\* selectRelated taking in the ancestors only
selectRelatedParentsOnly(w) ==
  [w EXCEPT !.selectionService = selectIds(@, findAllParents(w))]

selectRelated(w) ==
  [w EXCEPT !.selectionService = selectIds(@, findAllParents(w) \o findAllChildren(w))]

Negated(flag) == IF flag = "true" THEN "false" ELSE "true"

\* toggleFavorited without the reload of an active favorites slice
toggleFavoritedNoReload(w) ==
  LET data == primarySelectedInputData(w.appState, w.selectionService)
  IN IF data = NoRow THEN w
     ELSE IF data.meta.isFavorited = NoFlag THEN w
     ELSE LET flag == Negated(data.meta.isFavorited)
              at == IndexOf(IdsOf(w.appState.currentInputData), data.id) + 1
              flipped ==
                [w EXCEPT !.appState.currentInputData[at].meta.isFavorited = flag]
          IN IF flag = "true"
               THEN [flipped EXCEPT !.sliceService =
                       addIdsToSlice(@, FAVORITES_SLICE_NAME, <<data.id>>)]
               ELSE [flipped EXCEPT !.sliceService =
                       removeIdsFromSlice(@, FAVORITES_SLICE_NAME, <<data.id>>)]

toggleFavorited(w) ==
  LET data == primarySelectedInputData(w.appState, w.selectionService)
  IN IF data = NoRow THEN w
     ELSE IF data.meta.isFavorited = NoFlag THEN w
     ELSE LET flag == Negated(data.meta.isFavorited)
              at == IndexOf(IdsOf(w.appState.currentInputData), data.id) + 1
              flipped ==
                [w EXCEPT !.appState.currentInputData[at].meta.isFavorited = flag]
              synced ==
                IF flag = "true"
                  THEN [flipped EXCEPT !.sliceService =
                          addIdsToSlice(@, FAVORITES_SLICE_NAME, <<data.id>>)]
                  ELSE [flipped EXCEPT !.sliceService =
                          removeIdsFromSlice(@, FAVORITES_SLICE_NAME, <<data.id>>)]
          IN IF synced.sliceService.selectedSliceName = FAVORITES_SLICE_NAME
               THEN selectNamedSlice(synced, FAVORITES_SLICE_NAME)
               ELSE synced

\* renderLuckyButton selectRandom, with nextIndex = randInt(0, length); reading
\* the id of a row that is not there throws and nothing is selected
selectRandom(w, nextIndex) ==
  LET rows == w.appState.currentInputData
  IN IF nextIndex >= Len(rows) THEN w
     ELSE [w EXCEPT !.selectionService = selectIds(@, <<rows[nextIndex + 1].id>>)]

\* renderSelectionArrows selectOffset stopping at the ends instead of wrapping
selectionArrowsSelectOffsetClamped(w, offset) ==
  LET rows == w.appState.currentInputData
      primaryId == w.selectionService.primarySelectedId
      selectedIndex == IndexOf(IdsOf(rows), primaryId)
      numExamples == Len(rows)
  IN IF numExamples = 0 THEN w
     ELSE LET moved == selectedIndex + offset
              nextIndex == IF moved < 0 THEN 0
                           ELSE IF moved >= numExamples THEN numExamples - 1
                           ELSE moved
          IN [w EXCEPT !.selectionService = selectIds(@, <<rows[nextIndex + 1].id>>)]

\* renderSelectionArrows selectOffset
selectionArrowsSelectOffset(w, offset) ==
  LET rows == w.appState.currentInputData
      primaryId == w.selectionService.primarySelectedId
      selectedIndex == IndexOf(IdsOf(rows), primaryId)
      numExamples == Len(rows)
  IN IF numExamples = 0 THEN w
     ELSE LET nextIndex == (selectedIndex + offset + numExamples) % numExamples
          IN [w EXCEPT !.selectionService = selectIds(@, <<rows[nextIndex + 1].id>>)]

\* renderPrimarySelectControls selectOffset selecting the id as the dataset
\* arrows do, instead of moving the primary
primarySelectOffsetSelecting(w, offset) ==
  LET numSelected == Len(w.selectionService.selectedIds)
      primaryId == w.selectionService.primarySelectedId
      selectedIndex == IndexOf(w.selectionService.selectedIds, primaryId)
      nextIndex == (selectedIndex + offset + numSelected) % numSelected
      nextId == w.selectionService.selectedIds[nextIndex + 1]
  IN [w EXCEPT !.selectionService = selectIds(@, <<nextId>>)]

\* renderPrimarySelectControls selectOffset
primarySelectOffset(w, offset) ==
  LET numSelected == Len(w.selectionService.selectedIds)
      primaryId == w.selectionService.primarySelectedId
      selectedIndex == IndexOf(w.selectionService.selectedIds, primaryId)
      nextIndex == (selectedIndex + offset + numSelected) % numSelected
      nextId == w.selectionService.selectedIds[nextIndex + 1]
  IN [w EXCEPT !.selectionService = setPrimarySelection(@, nextId)]

\* renderPairControls selectOffset without the selection of all the pairs
\* when nothing is selected
pairSelectOffsetNoSelectAll(w, offset) ==
  LET idPairs == selectedIdPairs(w)
      primaryIds == <<w.selectionService.primarySelectedId,
                      w.referenceSelectionService.primarySelectedId>>
      selectedPairIndex ==
        IF Includes(primaryIds, NullId) THEN -1 ELSE IndexOf(idPairs, primaryIds)
      isPairSelected == selectedPairIndex # -1
      numPairs == Len(idPairs)
      start == IF isPairSelected THEN selectedPairIndex ELSE 0
      nextPairIndex == (start + offset + numPairs) % numPairs
      nextIds == idPairs[nextPairIndex + 1]
  IN [w EXCEPT
        !.selectionService = setPrimarySelection(@, nextIds[1]),
        !.referenceSelectionService = setPrimarySelection(@, nextIds[2])]

\* renderPairControls selectOffset
pairSelectOffset(w, offset) ==
  LET idPairs == selectedIdPairs(w)
      primaryIds == <<w.selectionService.primarySelectedId,
                      w.referenceSelectionService.primarySelectedId>>
      selectedPairIndex ==
        IF Includes(primaryIds, NullId) THEN -1 ELSE IndexOf(idPairs, primaryIds)
      isPairSelected == selectedPairIndex # -1
      numPairs == Len(idPairs)
      start == IF isPairSelected THEN selectedPairIndex ELSE 0
      nextPairIndex == (start + offset + numPairs) % numPairs
      nextIds == idPairs[nextPairIndex + 1]
      all == IF Len(w.selectionService.selectedIds) = 0
               THEN [w EXCEPT !.selectionService = selectIds(@, flatten(idPairs))]
               ELSE w
  IN [all EXCEPT
        !.selectionService = setPrimarySelection(@, nextIds[1]),
        !.referenceSelectionService = setPrimarySelection(@, nextIds[2])]

clearSelection(w) == [w EXCEPT !.selectionService = selectIds(@, <<>>)]

toggleExampleComparison(w) ==
  [w EXCEPT !.appState.compareExamplesEnabled = ~@]

-----------------------------------------------------------------------------
(* The state machine *)

\* the names a user types into the name input
NameInputs == {"", "x", FAVORITES_SLICE_NAME}

World ==
  [appState |-> appState,
   selectionService |-> selectionService,
   referenceSelectionService |-> referenceSelectionService,
   sliceService |-> sliceService,
   sliceByFeatures |-> sliceByFeatures,
   sliceName |-> sliceName]

\* the program's variables after a handler that leaves the world w
Commit(w) ==
  /\ appState' = w.appState
  /\ selectionService' = w.selectionService
  /\ referenceSelectionService' = w.referenceSelectionService
  /\ sliceService' = w.sliceService
  /\ sliceByFeatures' = w.sliceByFeatures
  /\ sliceName' = w.sliceName
  /\ featureNames' = featureNames

\* the record of the handler that ran
Ran(op, arg) == lastOp' = [op |-> op, arg |-> arg]

\* the slice service holds at most MaxSlices slices
WithinBounds(w) == Len(w.sliceService.namedSlices) <= MaxSlices

InitWith(datasets, features) ==
  /\ \E d \in datasets :
        appState =
          [currentInputData |-> d, compareExamplesEnabled |-> FALSE]
  /\ selectionService = [selectedIds |-> <<>>, primarySelectedId |-> NullId]
  /\ referenceSelectionService = [selectedIds |-> <<>>, primarySelectedId |-> NullId]
  /\ sliceService =
        [namedSlices |-> <<[name |-> FAVORITES_SLICE_NAME, ids |-> <<>>]>>,
         selectedSliceName |-> ""]
  /\ sliceByFeatures = <<>>
  /\ sliceName = ""
  /\ featureNames = features
  /\ lastOp = [op |-> "init", arg |-> ""]

\* the slice editor and the toolbar controls that change the selection
Init == InitWith(EditorDatasets, <<"f">>)

\* the toolbar on the larger datasets
ToolbarInit == InitWith(ToolbarDatasets, <<"f">>)

\* a click on the enabled Create button
ClickCreate ==
  /\ createButtonEnabled(World)
  /\ WithinBounds(handleClickCreate(World))
  /\ Commit(handleClickCreate(World))

\* Enter released in the name input: handleEnterKey calls onClickCreate
KeyUpEnter ==
  /\ WithinBounds(handleClickCreate(World))
  /\ Commit(handleClickCreate(World))

\* typing into the name input, which is read-only unless editable
InputChange ==
  \E value \in NameInputs :
    /\ sliceNameInputEditable(World)
    /\ value # sliceName
    /\ Commit(onInputChange(World, value))

\* a click on a feature checkbox, which shows whether the feature is listed
CheckboxChange ==
  \E key \in Range(featureNames), checked \in BOOLEAN :
    /\ checked = ~Includes(sliceByFeatures, key)
    /\ Commit(onChange(World, checked, key))

\* a click on an item of the slice list
ItemClick ==
  \E i \in 1..Len(sliceService.namedSlices) :
    Commit(itemClicked(World, sliceNames(sliceService)[i]))

\* a click on the enabled Delete button
ClickDelete ==
  /\ deleteButtonEnabled(World)
  /\ Commit(deleteSlice(World))

numSelected == Len(selectionService.selectedIds)

\* the indices randInt(0, n) can return
RandIndices(n) == IF n = 0 THEN {0} ELSE 0..(n - 1)

\* the offsets of the prev, random and next controls over n items
Offsets(n) == {-1} \cup {1} \cup RandOffsets(n)

\* the lucky button is rendered while nothing is selected
luckyButtonRendered(w) == Len(w.selectionService.selectedIds) = 0

\* the dataset arrows are rendered while exactly one id is selected
selectionArrowsRendered(w) == Len(w.selectionService.selectedIds) = 1

\* the primary arrows are rendered for a primary in a selection of several ids
primaryArrowsRendered(w) ==
  /\ w.selectionService.primarySelectedId # NullId
  /\ Len(w.selectionService.selectedIds) > 1

\* the pair arrows are rendered in comparison mode while there are pairs
pairControlsRendered(w) ==
  /\ w.appState.compareExamplesEnabled
  /\ Len(selectedIdPairs(w)) # 0

ClickLucky ==
  /\ luckyButtonRendered(World)
  /\ \E nextIndex \in RandIndices(Len(appState.currentInputData)) :
        Commit(selectRandom(World, nextIndex))

ClickSelectionArrow(offset) ==
  /\ selectionArrowsRendered(World)
  /\ offset \in Offsets(Len(appState.currentInputData))
  /\ Commit(selectionArrowsSelectOffset(World, offset))

ClickPrimaryArrow(offset) ==
  /\ primaryArrowsRendered(World)
  /\ offset \in Offsets(numSelected)
  /\ Commit(primarySelectOffset(World, offset))

\* the favorite button is rendered for a primary that is a row of the dataset
ClickFavorite ==
  /\ selectionService.primarySelectedId # NullId
  /\ primarySelectedInputData(appState, selectionService) # NoRow
  /\ Commit(toggleFavorited(World))

ClickPairArrow(offset) ==
  /\ pairControlsRendered(World)
  /\ offset \in Offsets(Len(selectedIdPairs(World)))
  /\ Commit(pairSelectOffset(World, offset))

ClickSelectRelated ==
  /\ numSelected # 0
  /\ Commit(selectRelated(World))

ClickClearSelection ==
  /\ numSelected # 0
  /\ Commit(clearSelection(World))

ClickToggleComparison ==
  /\ ~(~appState.compareExamplesEnabled /\ numSelected = 0)
  /\ Commit(toggleExampleComparison(World))

\* the offsets any control can be given
AllOffsets == (0 - MaxRows - 1)..(MaxRows + 1)

\* The slice editor, with the toolbar controls that change the selection. The
\* record of the last handler tells the editor's handlers apart.
Next ==
  \/ ClickCreate /\ Ran("create", "click")
  \/ KeyUpEnter /\ Ran("create", "enter")
  \/ InputChange /\ Ran("other", "")
  \/ CheckboxChange /\ Ran("other", "")
  \/ ItemClick /\ Ran("other", "")
  \/ ClickDelete /\ Ran("delete", "")
  \/ ClickFavorite /\ Ran("toggleFavorited", "")
  \/ ClickLucky /\ Ran("other", "")
  \/ (\E offset \in AllOffsets : ClickSelectionArrow(offset)) /\ Ran("other", "")
  \/ (\E offset \in AllOffsets : ClickPrimaryArrow(offset)) /\ Ran("other", "")
  \/ ClickSelectRelated /\ Ran("other", "")
  \/ ClickClearSelection /\ Ran("other", "")

Spec == Init /\ [][Next]_vars

\* The toolbar, with the slice list to make a slice active. The record of the
\* last handler tells the toolbar's handlers and their offsets apart.
ToolbarNext ==
  \/ ItemClick /\ Ran("itemClicked", "")
  \/ ClickFavorite /\ Ran("toggleFavorited", "")
  \/ ClickLucky /\ Ran("selectRandom", "")
  \/ \E offset \in AllOffsets :
        ClickSelectionArrow(offset) /\ Ran("selectionArrows", offset)
  \/ \E offset \in AllOffsets :
        ClickPrimaryArrow(offset) /\ Ran("primarySelect", offset)
  \/ \E offset \in AllOffsets :
        ClickPairArrow(offset) /\ Ran("pair", offset)
  \/ ClickSelectRelated /\ Ran("selectRelated", "")
  \/ ClickClearSelection /\ Ran("clearSelection", "")
  \/ ClickToggleComparison /\ Ran("toggleExampleComparison", "")

ToolbarSpec == ToolbarInit /\ [][ToolbarNext]_vars

\* The slice editor on a dataset and features that give several groups, with
\* room for the favorites slice, one slice made before and the slices of
\* MaxSlices groups
WithinGroupBounds(w) == Len(w.sliceService.namedSlices) <= MaxSlices + 2

GroupingInit == InitWith({GroupData}, <<"f", "g">>)

ClickCreateGroups ==
  /\ createButtonEnabled(World)
  /\ WithinGroupBounds(handleClickCreate(World))
  /\ Commit(handleClickCreate(World))

KeyUpEnterGroups ==
  /\ WithinGroupBounds(handleClickCreate(World))
  /\ Commit(handleClickCreate(World))

\* a click on the list item of the slice name
ItemClickOn(name) ==
  /\ hasSlice(sliceService, name)
  /\ Commit(itemClicked(World, name))

GroupingNext ==
  \/ ClickCreateGroups /\ Ran("create", "click")
  \/ KeyUpEnterGroups /\ Ran("create", "enter")
  \/ InputChange /\ Ran("other", "")
  \/ CheckboxChange /\ Ran("other", "")
  \/ \E name \in Range(sliceNames(sliceService)) :
        ItemClickOn(name) /\ Ran("itemClicked", "")

GroupingSpec == GroupingInit /\ [][GroupingNext]_vars

\* The feature checkboxes under every sequence of change events, whatever the
\* boxes show
CheckboxInit == InitWith({EmptyData}, <<"f", "g", "h">>)

\* a change event of the checkbox of feature key
CheckboxEvent(checked, key) ==
  /\ Len(onChange(World, checked, key).sliceByFeatures) <= MaxChecked
  /\ Commit(onChange(World, checked, key))

CheckboxNext ==
  \E key \in Range(featureNames), checked \in BOOLEAN :
    CheckboxEvent(checked, key) /\ Ran(IF checked THEN "checked" ELSE "unchecked", key)

CheckboxSpec == CheckboxInit /\ [][CheckboxNext]_vars

\* The toolbar on a dataset with a row whose parent is not in the dataset
OrphanInit == InitWith({OrphanData}, <<"f">>)

OrphanSpec == OrphanInit /\ [][ToolbarNext]_vars

-----------------------------------------------------------------------------
(* Properties of the slice editor, checked under Spec *)

favoritesIds(w) == getSliceByName(w.sliceService, FAVORITES_SLICE_NAME)

NoDuplicates(s) == Cardinality(Range(s)) = Len(s)

\* C1: while the create-enabled predicate is false, every create action (the
\* button or Enter in the name input) is a no-op: no slice is added, the
\* active slice name and the selection stay as they are.
C1_DisabledCreateIsNoOp ==
  [][(lastOp'.op = "create" /\ ~createButtonEnabled(World)) =>
       /\ sliceService'.namedSlices = sliceService.namedSlices
       /\ sliceService'.selectedSliceName = sliceService.selectedSliceName
       /\ selectionService'.selectedIds = selectionService.selectedIds]_vars

\* C2: a create action with no feature checked, name n and k selected ids
\* leaves a slice named n that holds exactly those k ids, makes n the active
\* slice and leaves the selection equal to those k ids.
C2_CreateFromSelection ==
  [][(lastOp'.op = "create" /\ ~anyCheckboxChecked(World)) =>
       /\ hasSlice(sliceService', sliceName)
       /\ Range(getSliceByName(sliceService', sliceName)) =
            Range(selectionService.selectedIds)
       /\ Len(getSliceByName(sliceService', sliceName)) =
            Len(selectionService.selectedIds)
       /\ sliceService'.selectedSliceName = sliceName
       /\ Range(selectionService'.selectedIds) = Range(selectionService.selectedIds)
       /\ Len(selectionService'.selectedIds) = Len(selectionService.selectedIds)]_vars

\* a click on Create has made the slice x of the two selected ids
C2_Witness ==
  /\ lastOp = [op |-> "create", arg |-> "click"]
  /\ sliceService.selectedSliceName = "x"
  /\ Len(getSliceByName(sliceService, "x")) = 2
  /\ selectionService.selectedIds = getSliceByName(sliceService, "x")

\* the names of the slices a create action adds, in the order it adds them
CreatedNames(w) ==
  IF anyCheckboxChecked(w)
    THEN LET groups ==
               groupExamplesByFeatures(
                 selectedOrAllInputData(w.appState, w.selectionService),
                 w.sliceByFeatures)
         IN [i \in 1..Len(groups) |-> w.sliceName \o "  " \o groups[i].name]
    ELSE <<w.sliceName>>

\* C3: after every create action the active slice is the last slice this
\* action added, and sliceName is "" and sliceByFeatures is empty.
C3_CreateSelectsItsLastSlice ==
  [][lastOp'.op = "create" =>
       /\ sliceName' = ""
       /\ sliceByFeatures' = <<>>
       /\ CreatedNames(World) # <<>>
       /\ sliceService'.selectedSliceName =
            CreatedNames(World)[Len(CreatedNames(World))]]_vars

\* C4: the favorites slice is in the slice list in every reachable state, and
\* the delete control is disabled while no slice or the favorites slice is
\* active.
C4_FavoritesNeverDeleted ==
  /\ hasSlice(sliceService, FAVORITES_SLICE_NAME)
  /\ (sliceService.selectedSliceName \in {"", FAVORITES_SLICE_NAME} =>
        ~deleteButtonEnabled(World))

\* a delete has removed the only other slice and favorites is still listed
C4_Witness ==
  /\ lastOp.op = "delete"
  /\ sliceNames(sliceService) = <<FAVORITES_SLICE_NAME>>

\* C5: in every reachable state a row's id is in the favorites slice exactly
\* when the row's isFavorited flag is true.
C5_FavoritesMatchFlags ==
  \A i \in 1..Len(appState.currentInputData) :
    LET d == appState.currentInputData[i]
    IN Includes(favoritesIds(World), d.id) <=> d.meta.isFavorited = "true"

\* C6: a toggle on a primary whose flag is false sets the flag and adds the id
\* to favorites once; a second toggle clears the flag, removes the id and
\* restores the favorites membership; favorites holds no id twice; without a
\* primary row or without the flag the toggle changes nothing.
C6_ToggleIsInvolution ==
  LET data == primarySelectedInputData(appState, selectionService)
      once == toggleFavorited(World)
      twice == toggleFavorited(once)
  IN /\ NoDuplicates(favoritesIds(World))
     /\ data = NoRow => once = World
     /\ data # NoRow =>
          /\ data.meta.isFavorited = NoFlag => once = World
          /\ data.meta.isFavorited = "false" =>
               /\ FlagOf(once, data.id) = "true"
               /\ Cardinality({k \in 1..Len(favoritesIds(once)) :
                                 favoritesIds(once)[k] = data.id}) = 1
               /\ FlagOf(twice, data.id) = "false"
               /\ ~Includes(favoritesIds(twice), data.id)
               /\ Range(favoritesIds(twice)) = Range(favoritesIds(World))

\* the flag of the primary row, NoFlag when there is no such row
PrimaryFlag ==
  LET data == primarySelectedInputData(appState, selectionService)
  IN IF data = NoRow THEN NoFlag ELSE data.meta.isFavorited

\* C7 as stated: after any favorite toggle the selection is the favorites
\* membership if favorites is active, and else the selection and the active
\* slice name are unchanged.
C7_AnyToggleReloadsFavorites ==
  [][lastOp'.op = "toggleFavorited" =>
       IF sliceService.selectedSliceName = FAVORITES_SLICE_NAME
         THEN Range(selectionService'.selectedIds) = Range(favoritesIds(World'))
         ELSE /\ selectionService'.selectedIds = selectionService.selectedIds
              /\ sliceService'.selectedSliceName = sliceService.selectedSliceName]_vars

\* C7 amended: after a favorite toggle on a primary whose flag is present the
\* selection is the updated favorites membership if favorites is active, and
\* else the selection and the active slice name are unchanged; a toggle on a
\* primary without the flag changes nothing.
C7_ToggleReloadsFavorites ==
  [][lastOp'.op = "toggleFavorited" =>
       IF PrimaryFlag = NoFlag
         THEN World' = World
         ELSE /\ sliceService'.selectedSliceName = sliceService.selectedSliceName
              /\ IF sliceService.selectedSliceName = FAVORITES_SLICE_NAME
                   THEN Range(selectionService'.selectedIds) =
                          Range(favoritesIds(World'))
                   ELSE selectionService'.selectedIds =
                          selectionService.selectedIds]_vars

\* with favorites active, a toggle has taken the primary out of favorites
\* and thereby out of the selection
C7_Witness ==
  /\ lastOp.op = "toggleFavorited"
  /\ sliceService.selectedSliceName = FAVORITES_SLICE_NAME
  /\ appState.currentInputData # <<>>
  /\ \A i \in 1..Len(appState.currentInputData) :
        appState.currentInputData[i].meta.isFavorited # "true"
  /\ selectionService.selectedIds = <<>>

\* C17: the Create button is enabled exactly when nothing is selected and a
\* feature is checked, or the name input is not empty and an id is selected;
\* so it is disabled with a feature checked, an id selected and no name.
C17_CreateEnabledExactly ==
  /\ createButtonEnabled(World) <=>
       \/ (numSelected = 0 /\ sliceByFeatures # <<>>)
       \/ (sliceName # "" /\ numSelected >= 1)
  /\ (sliceByFeatures # <<>> /\ numSelected >= 1 /\ sliceName = "") =>
       ~createButtonEnabled(World)

\* a feature is checked and a row is selected while the name input is empty
C17_Witness ==
  /\ sliceByFeatures # <<>>
  /\ numSelected >= 1
  /\ sliceName = ""
  /\ ~createButtonEnabled(World)

\* a delete removes the active slice and no other from the list, empties the
\* active slice name and leaves the delete button disabled
DeleteStep ==
  lastOp'.op = "delete" =>
    LET active == sliceService.selectedSliceName
        Other(s) == s.name # active
    IN /\ hasSlice(sliceService, active)
       /\ ~hasSlice(sliceService', active)
       /\ sliceService'.namedSlices = SelectSeq(sliceService.namedSlices, Other)
       /\ Len(sliceService'.namedSlices) = Len(sliceService.namedSlices) - 1
       /\ sliceService'.selectedSliceName = ""
       /\ ~deleteButtonEnabled(World')

\* no delete follows a delete directly
NoDeleteAfterDelete ==
  lastOp.op = "delete" => lastOp'.op # "delete"

\* C21: a delete removes the active slice from the slice list and leaves the
\* active slice name empty, so the delete button is disabled right after it
\* and no two deletes happen without a slice selection in between; no other
\* slice is removed.
C21_DeleteClearsActive ==
  [][DeleteStep /\ NoDeleteAfterDelete]_vars

\* a delete has just removed the active slice, while a row is selected, and
\* only the favorites slice is left
C21_Witness ==
  /\ lastOp.op = "delete"
  /\ sliceService.selectedSliceName = ""
  /\ sliceNames(sliceService) = <<FAVORITES_SLICE_NAME>>
  /\ ~deleteButtonEnabled(World)
  /\ selectionService.selectedIds # <<>>

-----------------------------------------------------------------------------
(* Properties of the toolbar, checked under ToolbarSpec *)

\* the parents of the ids of S, as a set
ParentsOf(rows, S) ==
  {ParentOf(rows, id) : id \in S} \ {NoParent}

RECURSIVE AncestorClosure(_, _, _)
AncestorClosure(rows, S, n) ==
  IF n = 0 THEN S ELSE AncestorClosure(rows, S \cup ParentsOf(rows, S), n - 1)

\* S with every transitive ancestor of its members
WithAncestors(rows, S) == AncestorClosure(rows, S, Len(rows) + 1)

\* the rows whose ancestry chain holds a member of S
WithDescendants(rows, S) ==
  {rows[i].id : i \in {k \in 1..Len(rows) : WithAncestors(rows, {rows[k].id}) \cap S # {}}}

\* C8: selectRelated replaces the selection S by a duplicate-free selection
\* that holds S, every transitive ancestor of a member of S, every row whose
\* ancestry chain holds a member of S, and nothing else.
C8_SelectRelated ==
  [][lastOp'.op = "selectRelated" =>
       LET rows == appState.currentInputData
           S == Range(selectionService.selectedIds)
       IN /\ NoDuplicates(selectionService'.selectedIds)
          /\ Range(selectionService'.selectedIds) =
               S \cup WithAncestors(rows, S) \cup WithDescendants(rows, S)]_vars

\* selectRelated on the last row of the chain has taken in its parent and
\* its grandparent
C8_Witness ==
  /\ lastOp.op = "selectRelated"
  /\ appState.currentInputData = ChainData
  /\ selectionService.selectedIds = <<"c", "b", "a">>

\* the index after a step by offset from index i of n, wrapping at both ends
Wrapped(i, offset, n) ==
  IF offset = 1 THEN (IF i = n - 1 THEN 0 ELSE i + 1)
  ELSE IF offset = -1 THEN (IF i = 0 THEN n - 1 ELSE i - 1)
  ELSE (i + offset) % n

\* the spec's scenario: rows a b c d e with c selected
ExampleWorld ==
  [appState |->
     [currentInputData |->
        << Row("a", NoParent, "p", "u", "false"), Row("b", NoParent, "p", "u", "false"),
           Row("c", NoParent, "p", "u", "false"), Row("d", NoParent, "p", "u", "false"),
           Row("e", NoParent, "p", "u", "false") >>,
      compareExamplesEnabled |-> FALSE],
   selectionService |-> [selectedIds |-> <<"c">>, primarySelectedId |-> "c"],
   referenceSelectionService |-> [selectedIds |-> <<>>, primarySelectedId |-> NullId],
   sliceService |->
     [namedSlices |-> <<[name |-> FAVORITES_SLICE_NAME, ids |-> <<>>]>>,
      selectedSliceName |-> ""],
   sliceByFeatures |-> <<>>,
   sliceName |-> ""]

\* next and then prev from the one selected id give the selection back
NextThenPrevRestores ==
  numSelected = 1 =>
    selectionArrowsSelectOffset(selectionArrowsSelectOffset(World, 1), -1)
      .selectionService.selectedIds = selectionService.selectedIds

\* the spec's scenario: next from c gives d, prev twice from c gives a
ExampleScenario ==
  /\ selectionArrowsSelectOffset(ExampleWorld, 1).selectionService.selectedIds = <<"d">>
  /\ selectionArrowsSelectOffset(selectionArrowsSelectOffset(ExampleWorld, -1), -1)
       .selectionService.selectedIds = <<"a">>

\* a dataset arrow selects exactly the row at the wrapped index
SelectionArrowStep ==
  lastOp'.op = "selectionArrows" =>
    LET rows == appState.currentInputData
        i == IndexOf(IdsOf(rows), selectionService.selectedIds[1])
    IN selectionService'.selectedIds =
         <<rows[Wrapped(i, lastOp'.arg, Len(rows)) + 1].id>>

\* C9: with one id selected, at index i of n rows, a dataset arrow replaces
\* the selection by exactly the row at index (i + offset) mod n, wrapping at
\* both ends; rows a b c d e with c selected give d on next and a on prev
\* twice; next followed by prev restores the selection.
C9_SequentialPaging ==
  [][SelectionArrowStep]_vars /\ [](NextThenPrevRestores /\ ExampleScenario)

\* next from the last of three rows has selected the first row
C9_Witness ==
  /\ lastOp = [op |-> "selectionArrows", arg |-> 1]
  /\ Len(appState.currentInputData) = MaxRows
  /\ selectionService.selectedIds = <<appState.currentInputData[1].id>>

\* the world after k clicks on the next primary arrow
RECURSIVE AfterNextPrimary(_, _)
AfterNextPrimary(w, k) ==
  IF k = 0 THEN w ELSE primarySelectOffset(AfterNextPrimary(w, k - 1), 1)

\* as many next steps as there are selected ids visit each of them once and
\* end at the primary they started from
PrimaryCycle ==
  (selectionService.primarySelectedId # NullId /\ numSelected > 1) =>
    LET visited ==
          [k \in 1..numSelected |->
             AfterNextPrimary(World, k).selectionService.primarySelectedId]
    IN /\ Range(visited) = Range(selectionService.selectedIds)
       /\ visited[numSelected] = selectionService.primarySelectedId

\* a primary arrow moves the primary to the wrapped position and changes
\* nothing else
PrimaryArrowStep ==
  lastOp'.op = "primarySelect" =>
    LET sel == selectionService.selectedIds
        p == IndexOf(sel, selectionService.primarySelectedId)
    IN /\ selectionService'.selectedIds = sel
       /\ selectionService'.primarySelectedId =
            sel[Wrapped(p, lastOp'.arg, Len(sel)) + 1]
       /\ World' = [World EXCEPT !.selectionService = selectionService']

\* C10: a primary arrow changes the primary pointer only: the selection is
\* unchanged, the new primary is the selected id at position (p + offset)
\* mod |selection| for the old primary's position p, and |selection| next
\* steps visit every selected id once and return to the first primary.
C10_PrimaryPaging ==
  [][PrimaryArrowStep]_vars /\ []PrimaryCycle

\* next from the last of three selected ids has made the first one primary
C10_Witness ==
  /\ lastOp = [op |-> "primarySelect", arg |-> 1]
  /\ Len(selectionService.selectedIds) = MaxRows
  /\ selectionService.primarySelectedId = selectionService.selectedIds[1]

\* the pair of primaries: <<main primary, reference primary>>
PrimaryPair(w) ==
  <<w.selectionService.primarySelectedId,
    w.referenceSelectionService.primarySelectedId>>

\* C11: with two id pairs, comparison mode on and nothing selected, one click
\* on a pair arrow makes the child of the first pair the main primary and the
\* parent of the first pair the reference primary.
C11_PairFromEmptySelection ==
  [][(/\ lastOp'.op = "pair"
      /\ selectionService.selectedIds = <<>>
      /\ Len(selectedIdPairs(World)) = 2) =>
       PrimaryPair(World') = selectedIdPairs(World)[1]]_vars

\* a pair arrow leaves the primaries on one of the id pairs, which the next
\* rendering finds selected; it selects the members of all the pairs when
\* nothing was selected and leaves any other selection as it is
PairArrowStep ==
  lastOp'.op = "pair" =>
    LET idPairs == selectedIdPairs(World)
    IN /\ Includes(idPairs, PrimaryPair(World'))
       /\ IndexOf(selectedIdPairs(World'), PrimaryPair(World')) # -1
       /\ NoDuplicates(selectionService'.selectedIds)
       /\ IF selectionService.selectedIds = <<>>
            THEN Range(selectionService'.selectedIds) = Range(flatten(idPairs))
            ELSE selectionService'.selectedIds = selectionService.selectedIds

\* the world after k clicks on the next pair arrow
RECURSIVE AfterNextPair(_, _)
AfterNextPair(w, k) ==
  IF k = 0 THEN w ELSE pairSelectOffset(AfterNextPair(w, k - 1), 1)

\* as many next clicks as there are pairs visit each pair once
PairCycle ==
  (appState.compareExamplesEnabled /\ selectedIdPairs(World) # <<>>) =>
    LET n == Len(selectedIdPairs(World))
        visited == [k \in 1..n |-> PrimaryPair(AfterNextPair(World, k))]
    IN /\ Range(visited) = Range(selectedIdPairs(World))
       /\ NoDuplicates(visited)

\* C12: after a click on a pair arrow the pair of primaries is one of the id
\* pairs and is found selected; if nothing was selected before, the selection
\* is the set of the members of all the pairs; repeated next clicks visit
\* every pair before one of them repeats.
C12_PairCycling ==
  [][PairArrowStep]_vars /\ []PairCycle

\* the first next click on the chain, from an empty selection, has selected
\* the members of both pairs
C12_Witness ==
  /\ lastOp = [op |-> "pair", arg |-> 1]
  /\ appState.currentInputData = ChainData
  /\ selectionService.selectedIds = <<"b", "a", "c">>
  /\ referenceSelectionService.primarySelectedId # NullId

\* C13: in every reachable state the primary of the main selection and the
\* primary of the reference selection are null or in the selection they
\* belong to.
C13_PrimaryIsSelected ==
  \A sel \in {selectionService, referenceSelectionService} :
    sel.primarySelectedId = NullId \/ Includes(sel.selectedIds, sel.primarySelectedId)

\* C15: every navigation control that is rendered works on a collection of
\* at least one item: the lucky button and the dataset arrows on a dataset
\* with a row, the primary arrows on a selection with an id, the pair arrows
\* on a list with a pair.
C15_ControlsOverNonEmpty ==
  /\ luckyButtonRendered(World) => Len(appState.currentInputData) >= 1
  /\ selectionArrowsRendered(World) => Len(appState.currentInputData) >= 1
  /\ primaryArrowsRendered(World) => Len(selectionService.selectedIds) >= 1
  /\ pairControlsRendered(World) => Len(selectedIdPairs(World)) >= 1

-----------------------------------------------------------------------------
(* Properties of the toolbar on a dataset with a missing parent, checked     *)
(* under OrphanSpec                                                          *)

\* C14: in every state the toolbar reaches, every selected id is the id of a
\* row of the current dataset, also when a row's parentId names no row.
C14_SelectionWithinDataset ==
  Range(selectionService.selectedIds) \subseteq Range(IdsOf(appState.currentInputData))

-----------------------------------------------------------------------------
(* Properties of the slice editor on several groups, checked under           *)
(* GroupingSpec                                                              *)

\* C16: a create action with a feature checked adds as many slices as the
\* count displayed for the checked features at the click, with and without a
\* selection.
C16_CreatedCountIsDisplayed ==
  [][(lastOp'.op = "create" /\ anyCheckboxChecked(World)) =>
       Len(sliceService'.namedSlices) - Len(sliceService.namedSlices) =
         renderNumSlices(World)]_vars

\* the slices of the list that carry the active slice name
ActiveSlices(w) ==
  {i \in 1..Len(w.sliceService.namedSlices) :
     w.sliceService.namedSlices[i].name = w.sliceService.selectedSliceName}

\* one click on the item of a slice: a slice that is not active becomes the
\* active slice and its ids the selection, the active slice stops being
\* active; never more than one slice is active
ItemClickToggles(name) ==
  LET once == itemClicked(World, name)
  IN /\ name # sliceService.selectedSliceName =>
          /\ once.sliceService.selectedSliceName = name
          /\ once.selectionService.selectedIds = getSliceByName(sliceService, name)
     /\ name = sliceService.selectedSliceName =>
          once.sliceService.selectedSliceName = ""
     /\ Cardinality(ActiveSlices(World)) <= 1
     /\ Cardinality(ActiveSlices(once)) <= 1

\* the active slice name after two clicks on the item of a slice
AfterTwoClicks(name) ==
  itemClicked(itemClicked(World, name), name).sliceService.selectedSliceName

\* C18 as stated: a click on a slice that is not active makes it active and
\* its ids the selection, a click on the active slice empties the active
\* slice name, at most one slice is active, and two clicks in a row on any
\* slice leave no slice active.
C18_TwoClicksLeaveNoneActive ==
  \A name \in Range(sliceNames(sliceService)) :
    /\ ItemClickToggles(name)
    /\ AfterTwoClicks(name) = ""

\* C18 amended: as stated for one click and for the number of active slices;
\* two clicks in a row on a slice that was not active leave no slice active,
\* and two clicks in a row on the active slice leave it active again.
C18_ItemClickToggles ==
  \A name \in Range(sliceNames(sliceService)) :
    /\ ItemClickToggles(name)
    /\ AfterTwoClicks(name) =
         IF name = sliceService.selectedSliceName THEN name ELSE ""

\* a click on the item of a slice of two rows has made it the active slice
\* and its rows the selection
C18_Witness ==
  /\ lastOp.op = "itemClicked"
  /\ sliceService.selectedSliceName \notin {"", FAVORITES_SLICE_NAME}
  /\ Len(selectionService.selectedIds) = 2
  /\ selectionService.selectedIds =
       getSliceByName(sliceService, sliceService.selectedSliceName)

\* the rows a create action groups: the selected rows if an id is selected,
\* else all the rows
RowsToGroup ==
  IF selectionService.selectedIds # <<>>
    THEN {appState.currentInputData[i] :
            i \in {k \in 1..Len(appState.currentInputData) :
                     Includes(selectionService.selectedIds,
                              appState.currentInputData[k].id)}}
    ELSE Range(appState.currentInputData)

\* the name of the slice of the group of row d
GroupSliceName(d) == sliceName \o "  " \o GroupLabel(d, sliceByFeatures)

\* a create action with a feature checked leaves, for every group of the rows
\* it groups, a slice with the group's name and ids; these slices are
\* pairwise disjoint, together hold the ids of the grouped rows, and are the
\* only names the slice list gains
CreateGroupsStep ==
  (lastOp'.op = "create" /\ anyCheckboxChecked(World)) =>
    LET created == {GroupSliceName(d) : d \in RowsToGroup}
    IN /\ \A n \in created :
            /\ hasSlice(sliceService', n)
            /\ NoDuplicates(getSliceByName(sliceService', n))
            /\ Range(getSliceByName(sliceService', n)) =
                 {d.id : d \in {e \in RowsToGroup : GroupSliceName(e) = n}}
       /\ \A n1, n2 \in created :
            n1 # n2 =>
              Range(getSliceByName(sliceService', n1)) \cap
                Range(getSliceByName(sliceService', n2)) = {}
       /\ UNION {Range(getSliceByName(sliceService', n)) : n \in created} =
            {d.id : d \in RowsToGroup}
       /\ Range(sliceNames(sliceService')) =
            Range(sliceNames(sliceService)) \cup created
       /\ NoDuplicates(sliceNames(sliceService'))

\* C19: with a feature checked, a create action adds one slice per group,
\* named by the name input, two spaces and the group label, and the created
\* slices partition the selected rows, or all the rows when none is selected.
C19_CreatedSlicesPartition ==
  [][CreateGroupsStep]_vars

\* a create action has split the three rows by feature f into a slice of two
\* rows and a slice of one row
C19_Witness ==
  /\ lastOp.op = "create"
  /\ getSliceByName(sliceService, "  p") = <<"a", "c">>
  /\ getSliceByName(sliceService, "  q") = <<"b">>
  /\ sliceService.selectedSliceName = "  q"

-----------------------------------------------------------------------------
(* Properties of the feature checkboxes, checked under CheckboxSpec *)

\* the list s without the feature k, the other features in their order
Without(s, k) ==
  LET Other(x) == x # k
  IN SelectSeq(s, Other)

\* a checked event appends the feature; an unchecked event removes the
\* feature and nothing else, and changes nothing when the feature is not
\* listed
CheckboxStep ==
  /\ lastOp'.op = "checked" =>
       sliceByFeatures' = Append(sliceByFeatures, lastOp'.arg)
  /\ lastOp'.op = "unchecked" =>
       sliceByFeatures' =
         IF Includes(sliceByFeatures, lastOp'.arg)
           THEN Without(sliceByFeatures, lastOp'.arg)
           ELSE sliceByFeatures

\* C20: under every sequence of checkbox change events sliceByFeatures holds
\* no feature twice, a checked event for k appends k, an unchecked event for
\* k removes k and only k and keeps the order of the others, and an unchecked
\* event for a feature that is not listed leaves the list unchanged.
C20_CheckboxList ==
  [][CheckboxStep]_vars /\ []NoDuplicates(sliceByFeatures)

-----------------------------------------------------------------------------
(* Repeated selectRelated, checked under ToolbarSpec *)

\* the ids one lineage edge away from a member of S, with S
LineageStep(rows, S) ==
  S \cup ParentsOf(rows, S)
    \cup {rows[i].id : i \in {k \in 1..Len(rows) : rows[k].meta.parentId \in S}}

\* the lineage-connected components of the members of S
RECURSIVE Components(_, _, _)
Components(rows, S, n) ==
  IF n = 0 THEN S ELSE Components(rows, LineageStep(rows, S), n - 1)

\* the world after k clicks on Select related
RECURSIVE AfterSelectRelated(_, _)
AfterSelectRelated(w, k) ==
  IF k = 0 THEN w ELSE selectRelated(AfterSelectRelated(w, k - 1))

\* the selected ids of a world, as a set
Selected(w) == Range(w.selectionService.selectedIds)

\* S is closed under the lineage relation
LineageClosed(rows, S) ==
  /\ \A id \in S : ParentOf(rows, id) # NoParent => ParentOf(rows, id) \in S
  /\ \A i \in 1..Len(rows) : rows[i].meta.parentId \in S => rows[i].id \in S

\* as many clicks as there are rows reach a selection that one more click
\* leaves as it is, that is closed under the lineage relation and that is the
\* union of the components of the selection the clicks started from
SelectRelatedFixedPoint ==
  numSelected # 0 =>
    LET rows == appState.currentInputData
        fixed == AfterSelectRelated(World, Len(rows))
    IN /\ Selected(selectRelated(fixed)) = Selected(fixed)
       /\ LineageClosed(rows, Selected(fixed))
       /\ Selected(fixed) = Components(rows, Selected(World), Len(rows) + 1)

\* a click on Select related keeps every selected id
SelectRelatedGrows ==
  lastOp'.op = "selectRelated" =>
    Range(selectionService.selectedIds) \subseteq Range(selectionService'.selectedIds)

\* C22: selectRelated never shrinks the selection; repeated clicks reach a
\* fixed point after finitely many steps, where the selection is closed under
\* the lineage relation and is the union of the lineage-connected components
\* of the selection the clicks started from.
C22_SelectRelatedClosure ==
  [][SelectRelatedGrows]_vars /\ []SelectRelatedFixedPoint

\* one click on Select related has not reached the fixed point: one more
\* click takes in another row
C22_Witness ==
  /\ lastOp.op = "selectRelated"
  /\ Selected(selectRelated(World)) # Selected(World)

====
